---- MODULE Spec2Model ----
(***************************************************************************)
(* Model of the SimpleRenderer core (src/src/main.rs): the Animation       *)
(* state machine, the sprite physics of World::update_movement and         *)
(* World::update_physics, and the compositor World::draw.                  *)
(*                                                                         *)
(* f32 values are modelled exactly.  A float is a pair <<m, e>> standing   *)
(* for m * 2^e, with m = 0 (zero) or 2^23 <= |m| < 2^24 (a normal number). *)
(* Every arithmetic operator below rounds to nearest, ties to even, as the *)
(* hardware does; casts truncate and saturate as Rust's `as` does.         *)
(* Subnormals, infinities and NaN are not represented: no value of the     *)
(* program gets there within the bounds of the model.                      *)
(***************************************************************************)
EXTENDS Integers, Sequences, FiniteSets, TLC

(***************************************************************************)
(* IEEE-754 binary32 arithmetic on 32-bit integers                         *)
(***************************************************************************)
Pow2(n) == 2^n
Abs(x) == IF x < 0 THEN -x ELSE x
Sgn(x) == IF x < 0 THEN -1 ELSE 1
\* number of bits of q, 0 <= q < 2^30
RECURSIVE BitLenFrom(_, _)
BitLenFrom(q, n) == IF n = 0 \/ q >= Pow2(n-1) THEN n ELSE BitLenFrom(q, n-1)
BitLen(q) == BitLenFrom(q, 30)
FZero == <<0, 0>>
RoundF32(s, q, e) ==
  IF q = 0 THEN FZero
  ELSE LET n == BitLen(q) IN
    IF n <= 24 THEN <<s * q * Pow2(24-n), e - (24-n)>>
    ELSE LET sh == n - 24
             t == q \div Pow2(sh)
             lo == q % Pow2(sh)
             half == Pow2(sh-1)
             r == IF lo > half \/ (lo = half /\ t % 2 = 1) THEN t+1 ELSE t
         IN IF r = Pow2(24) THEN <<s * Pow2(23), e + sh + 1>> ELSE <<s*r, e+sh>>
FNeg(a) == <<-a[1], a[2]>>
FAbs(a) == <<Abs(a[1]), a[2]>>
FAdd(a,b) ==
  IF a[1] = 0 THEN b ELSE IF b[1] = 0 THEN a
  ELSE LET hi == IF a[2] >= b[2] THEN a ELSE b
           lo == IF a[2] >= b[2] THEN b ELSE a
           d == hi[2] - lo[2]
           A == Abs(hi[1]) * 8
           B == IF d <= 3 THEN Abs(lo[1]) * Pow2(3-d)
                ELSE IF d >= 27 THEN 1
                ELSE LET w == Pow2(d-2) IN 2*(Abs(lo[1]) \div w) + (IF Abs(lo[1]) % w # 0 THEN 1 ELSE 0)
           S == Sgn(hi[1])*A + Sgn(lo[1])*B
      IN RoundF32(Sgn(S), Abs(S), hi[2]-3)
FSub(a,b) == FAdd(a, FNeg(b))
DivShift(d) == CHOOSE s \in 0..12 : Pow2(s) >= 4*d /\ (s = 0 \/ Pow2(s-1) < 4*d)
FDivInt(a, d) ==
  IF a[1] = 0 THEN FZero ELSE
  LET m == Abs(a[1])
      s == DivShift(d)
      q == (m \div d) * Pow2(s) + ((m % d) * Pow2(s)) \div d
      r == ((m % d) * Pow2(s)) % d
  IN RoundF32(Sgn(a[1]), 2*q + (IF r # 0 THEN 1 ELSE 0), a[2] - s - 1)
FMulInt(a, c) ==
  IF a[1] = 0 \/ c = 0 THEN FZero
  ELSE LET m == Abs(a[1]) IN
    IF c < 64 THEN RoundF32(Sgn(a[1]), m*c, a[2])
    ELSE LET hi == (m \div 4096)*c + ((m % 4096)*c) \div 4096
             lo == ((m % 4096)*c) % 4096
             q  == hi*256 + lo \div 16
             qs == IF lo % 16 # 0 /\ q % 2 = 0 THEN q+1 ELSE q
         IN RoundF32(Sgn(a[1]), qs, a[2] + 4)
FromInt(k) == RoundF32(Sgn(k), Abs(k), 0)
FTrunc(a) ==
  IF a[2] >= 0 THEN a[1] * Pow2(a[2])
  ELSE IF a[2] <= -24 THEN 0
  ELSE Sgn(a[1]) * (Abs(a[1]) \div Pow2(-a[2]))
FRound(a) ==
  IF a[2] >= 0 THEN a[1] * Pow2(a[2])
  ELSE IF a[2] <= -25 THEN 0
  ELSE LET w == Pow2(-a[2]) IN
       Sgn(a[1]) * (Abs(a[1]) \div w + (IF 2*(Abs(a[1]) % w) >= w THEN 1 ELSE 0))
PosLt(x, y) == x[2] < y[2] \/ (x[2] = y[2] /\ x[1] < y[1])
FLt(a, b) ==
  CASE a[1] = 0 -> b[1] > 0
    [] b[1] = 0 -> a[1] < 0
    [] a[1] < 0 /\ b[1] > 0 -> TRUE
    [] a[1] > 0 /\ b[1] < 0 -> FALSE
    [] a[1] > 0 /\ b[1] > 0 -> PosLt(a, b)
    [] OTHER -> PosLt(FNeg(b), FNeg(a))

(***************************************************************************)
(* Rust `as` casts from f32: truncate toward zero and saturate             *)
(***************************************************************************)
Saturate(t, lo, hi) == IF t < lo THEN lo ELSE IF t > hi THEN hi ELSE t
AsU16(a) == Saturate(FTrunc(a), 0, 65535)
AsI16(a) == Saturate(FTrunc(a), -32768, 32767)
AsI32(a) == FTrunc(a)

(***************************************************************************)
(* Constants of the program                                                *)
(***************************************************************************)
WORLD_WIDTH == 256
WORLD_HEIGHT == 144
\* f32 literals, as the compiler rounds them
F0_3 == <<10066330, -25>>
F0_1 == <<13421773, -27>>
F0_01 == <<10737418, -30>>
F4_75 == <<9961472, -21>>
F5_0 == <<10485760, -21>>
FUpImpulse == <<-14680064, -21>>

(***************************************************************************)
(* Bounds of the model                                                     *)
(***************************************************************************)
\* Spec: key events (press or release of Up, Right, Left) in one run, and
\* the handler passes between two passes that receive key events
MaxEvents == 2
InputPeriod == 48
\* SpecDraw: the same two bounds for the runs that are redrawn
DrawMaxEvents == 1
DrawInputPeriod == 128
\* the model stops following sprite 0 once it is more than this many pixels
\* outside the world
MaxOvershoot == 2
\* redraws followed in one run
MaxDraws == 2
\* the clock reading at program start, in ms (the real reading is about
\* 1.7e12; all the code does with it is compare differences with a
\* frame_duration)
StartTime == 1000
\* ms of run time followed in SpecDraw and in SpecAnim
DrawMaxElapsed == 200
AnimMaxElapsed == 800
\* SpecAnim: frames in a clip
MaxFrames == 4
MaxBlends == 2

(***************************************************************************)
(* Construction: Animation::new, SpriteSheet::new, Sprite::new, main       *)
(***************************************************************************)
AnimationNew(starting_frame_position, num_frames, frame_duration) ==
  [starting_frame_position |-> starting_frame_position,
   num_frames |-> num_frames,
   frame_duration |-> frame_duration,
   current_frame |-> 0,
   current_position |-> starting_frame_position,
   previous_frame_time |-> 0]

SpriteSheetNew(dims, animations, frame_size) ==
  [frame_size |-> frame_size,
   animations |-> animations,
   current_animation |-> 0,
   sheet_dimensions |-> dims]

SpriteNew(sprite_sheet) ==
  [size |-> sprite_sheet.frame_size,
   sprite_sheet |-> sprite_sheet,
   facing_left |-> FALSE,
   position |-> <<FZero, FZero>>,
   velocity |-> <<FZero, FZero>>]

\* main, lines 336-349: the player (two clips on a sheet of the given
\* dimensions) and the decorative building resting on the floor at x = 100
PlayerSprite(dims) ==
  SpriteNew(SpriteSheetNew(dims,
      <<AnimationNew(<<0, 0>>, 4, 200), AnimationNew(<<0, 74>>, 4, 100)>>, <<50, 37>>))

WindowSprite(dims) ==
  LET s == SpriteNew(SpriteSheetNew(dims, <<AnimationNew(<<0, 0>>, 1, 0)>>, <<98, 72>>))
  IN [s EXCEPT !.position = <<FromInt(100), FromInt(WORLD_HEIGHT - s.size[2])>>]

(***************************************************************************)
(* Sprite and World operations on the physical state                       *)
(***************************************************************************)
collision_y(s) == AsU16(s.position[2]) + s.size[1] >= WORLD_HEIGHT

set_sprite_animation(sps, sprite, animation_index) ==
  [sps EXCEPT ![sprite + 1].sprite_sheet.current_animation = animation_index]

set_velocity_y(sps, velocity, sprite_index) ==
  [sps EXCEPT ![sprite_index + 1].velocity[2] = velocity]

\* (v * k).round() / k, lines 205 and 233
RoundTo(v, k) == FDivInt(FromInt(FRound(FMulInt(v, k))), k)

\* lines 206-208: the dead zone of the horizontal velocity
DeadZoneBelowFriction(v) == IF FLt(FAbs(v), F0_1) THEN FZero ELSE v
DeadZone(v) == IF FLt(FAbs(v), F0_3) THEN FZero ELSE v

\* lines 196 and 200: the velocity may still be raised
BelowTopSpeedOfFive(v) == FLt(FAbs(v), F5_0)
BelowTopSpeed(v) == FLt(FAbs(v), F4_75)

update_movementOfLastSprite(rh, lh, sps) ==
  LET v0 == sps[Len(sps)].velocity[1]
      v1 == IF rh /\ BelowTopSpeed(v0) THEN FAdd(v0, F0_3) ELSE v0
      v2 == IF lh /\ BelowTopSpeed(v1) THEN FSub(v1, F0_3) ELSE v1
      v3 == RoundTo(v2, 1000)
  IN [sps EXCEPT ![Len(sps)].velocity[1] = DeadZone(v3)]
update_movement(rh, lh, sps) ==
  LET v0 == sps[1].velocity[1]
      v1 == IF rh /\ BelowTopSpeed(v0) THEN FAdd(v0, F0_3) ELSE v0
      v2 == IF lh /\ BelowTopSpeed(v1) THEN FSub(v1, F0_3) ELSE v1
      v3 == RoundTo(v2, 1000)
  IN [sps EXCEPT ![1].velocity[1] = DeadZone(v3)]

\* lines 238-239: the sprite is put on the floor
FloorClampKeepsVelocity(s) ==
  [s EXCEPT !.position[2] = FromInt(WORLD_HEIGHT - s.size[2])]
FloorClamp(s) ==
  [s EXCEPT !.position[2] = FromInt(WORLD_HEIGHT - s.size[2]), !.velocity[2] = FZero]

\* lines 227-231: friction on the horizontal velocity
FrictionNone(vx, friction_x) == vx
FrictionFivefold(vx, friction_x) ==
  IF FLt(FZero, vx) THEN FSub(vx, FMulInt(friction_x, 5))
  ELSE IF FLt(vx, FZero) THEN FAdd(vx, FMulInt(friction_x, 5))
  ELSE vx
Friction(vx, friction_x) ==
  IF FLt(FZero, vx) THEN FSub(vx, friction_x)
  ELSE IF FLt(vx, FZero) THEN FAdd(vx, friction_x)
  ELSE vx

update_physics(sps) ==
  LET s == sps[1]
      acceleration_y == F0_1
      friction_x == IF collision_y(s) THEN F0_1 ELSE F0_01
      px1 == FAdd(s.position[1], FDivInt(s.velocity[1], 5))
      py1 == FAdd(s.position[2], FDivInt(s.velocity[2], 5))
      vx == s.velocity[1]
      vy == s.velocity[2]
      vx1 == IF AsI16(px1) <= 0 \/ AsU16(px1) + s.size[1] > WORLD_WIDTH THEN FZero
             ELSE Friction(vx, friction_x)
      px2 == RoundTo(px1, 100)
      moved == [s EXCEPT !.position = <<px2, py1>>, !.velocity = <<vx1, vy>>]
      s1 == IF AsU16(py1) + s.size[2] < WORLD_HEIGHT /\ FLt(vy, F5_0)
            THEN [moved EXCEPT !.velocity[2] = FAdd(vy, acceleration_y)]
            ELSE IF collision_y(moved)
            THEN FloorClamp(moved)
            ELSE moved
  IN [sps EXCEPT ![1] = s1]

(***************************************************************************)
(* Animation                                                               *)
(***************************************************************************)
\* Animation::increment_frame, with the reading of get_current_time() as a
\* parameter
\* line 129: a static clip
StaticNever(a) == FALSE
Static(a) == a.frame_duration = 0

\* line 136: the frame's duration has not elapsed
TooEarlyIgnoresDuration(a, current_time) == current_time - a.previous_frame_time < 0
TooEarly(a, current_time) == current_time - a.previous_frame_time < a.frame_duration

\* line 140: the clip shows its last frame
LastFramePastEnd(a) == a.current_frame >= a.num_frames
LastFrame(a) == a.current_frame >= a.num_frames - 1

\* line 145: the next frame starts a new row of the sheet
RowEndOneFrame(a, frame_size, sheet_width) ==
  a.current_position[1] + frame_size[1] >= sheet_width
RowEnd(a, frame_size, sheet_width) ==
  a.current_position[1] + frame_size[1] * 2 >= sheet_width

increment_frame(a, frame_size, sheet_width, current_time) ==
  IF Static(a) THEN a
  ELSE IF TooEarly(a, current_time) THEN a
  ELSE LET stepped ==
             IF LastFrame(a)
             THEN [a EXCEPT !.current_frame = 0,
                            !.current_position = a.starting_frame_position]
             ELSE [a EXCEPT
                    !.current_position =
                       IF RowEnd(a, frame_size, sheet_width)
                       THEN <<0, a.current_position[2] + frame_size[2]>>
                       ELSE <<a.current_position[1] + frame_size[1], a.current_position[2]>>,
                    !.current_frame = a.current_frame + 1]
       IN [stepped EXCEPT !.previous_frame_time = current_time]

run_animation(s, current_time) ==
  LET frame_size == s.sprite_sheet.frame_size
      sheet_width == s.sprite_sheet.sheet_dimensions[1]
      current == s.sprite_sheet.current_animation
  IN [s EXCEPT !.sprite_sheet.animations[current + 1] =
         increment_frame(@, frame_size, sheet_width, current_time)]

get_sheet_offset(s) ==
  s.sprite_sheet.animations[s.sprite_sheet.current_animation + 1].current_position

update_sprite_animations(sps, current_time) ==
  [i \in 1..Len(sps) |-> run_animation(sps[i], current_time)]

(***************************************************************************)
(* Compositor: World::draw                                                 *)
(***************************************************************************)
\* length in bytes of the buffer pixels.get_frame_mut() hands to draw
FrameLen == WORLD_WIDTH * WORLD_HEIGHT * 4

\* The images are data from outside the program.  The model reads a fixed
\* pattern for each: an opaque background, and sheets whose pixels are
\* transparent, half transparent or opaque.
Background(x, y) == <<x % 256, y % 256, (x + y) % 256, 255>>
Texture(i, x, y) ==
  <<(37 * x + 11 * y + 50 * i) % 256, (5 * x + 3 * y) % 256, (x + 7 * y) % 256,
    CASE (x + y) % 3 = 0 -> 0 [] (x + y) % 3 = 1 -> 128 [] OTHER -> 255>>

\* The buffer is observed at these pixels: pixel 0, pixel (10, 50) on the
\* way of the falling player, pixel (150, 120) inside the building
Probe == {0, 50 * WORLD_WIDTH + 10, 120 * WORLD_WIDTH + 150}

\* lines 273-279: the byte index of pixel z of a sprite, as the i32 value
\* that is then cast to usize; pos_x and pos_y are `position.0 as i32` and
\* `position.1 as i32`, width is size.0
PixelIndexAt(pos_x, pos_y, width, z) ==
  LET x == z % width
      y == z \div width
      viewport_y == (y + pos_y) * WORLD_WIDTH
      viewport_x == x + pos_x
  IN (viewport_y + viewport_x) * 4

PixelIndex(s, z) ==
  PixelIndexAt(AsI32(s.position[1]), AsI32(s.position[2]), s.size[1], z)

\* line 282: `index <= ((WORLD_WIDTH * WORLD_HEIGHT) * 4) as usize`; a
\* negative i32 cast to usize is at least 2^64 - 2^31
UsesComputedIndex(index) == index >= 0 /\ index <= FrameLen

\* lines 281-286: first byte of the slice world_pixel
DestStartAt(pos_x, pos_y, width, z) ==
  IF UsesComputedIndex(PixelIndexAt(pos_x, pos_y, width, z))
  THEN PixelIndexAt(pos_x, pos_y, width, z)
  ELSE 0

DestStart(s, z) ==
  DestStartAt(AsI32(s.position[1]), AsI32(s.position[2]), s.size[1], z)

\* frame[start..start + 4] panics unless the range lies in the buffer
SliceInFrame(start) == start + 4 <= FrameLen

SpritePixels(s) == s.size[1] * s.size[2]

\* The loop over z goes through the sprite row by row; the pixels of row y
\* have consecutive indices, from that of its first pixel to that of its
\* last.  Row y can write buffer pixel p only if p is one of them, or if p
\* is pixel 0 and one of them is not in 0..FrameLen.  In the definitions
\* that end in At, pos_x and pos_y are the two casts of the position, made
\* once for the sprite.
RowFirstAt(pos_x, pos_y, width, y) == PixelIndexAt(pos_x, pos_y, width, y * width)
RowLastAt(pos_x, pos_y, width, y) == PixelIndexAt(pos_x, pos_y, width, y * width + width - 1)
RowFirst(s, y) == RowFirstAt(AsI32(s.position[1]), AsI32(s.position[2]), s.size[1], y)
RowLast(s, y) == RowLastAt(AsI32(s.position[1]), AsI32(s.position[2]), s.size[1], y)
RowMayWriteAt(pos_x, pos_y, width, y, p) ==
  \/ RowFirstAt(pos_x, pos_y, width, y) <= 4 * p /\ 4 * p <= RowLastAt(pos_x, pos_y, width, y)
  \/ p = 0 /\ (RowFirstAt(pos_x, pos_y, width, y) < 0
               \/ RowLastAt(pos_x, pos_y, width, y) > FrameLen)

\* the pixels of row y that are written to buffer pixel p, in loop order
RowHitsAt(pos_x, pos_y, width, y, p) ==
  SelectSeq([k \in 1..width |-> y * width + k - 1],
            LAMBDA z : DestStartAt(pos_x, pos_y, width, z) = 4 * p)

RECURSIVE Flatten(_, _, _)
Flatten(f, lo, hi) == IF lo > hi THEN <<>> ELSE f[lo] \o Flatten(f, lo + 1, hi)

\* the pixels of the sprite that are written to buffer pixel p, in loop order
HitsAt(pos_x, pos_y, width, height, p) ==
  LET rows == SelectSeq([k \in 1..height |-> k - 1],
                        LAMBDA y : RowMayWriteAt(pos_x, pos_y, width, y, p))
  IN Flatten([k \in 1..Len(rows) |-> RowHitsAt(pos_x, pos_y, width, rows[k], p)],
             1, Len(rows))
Hits(s, p) ==
  HitsAt(AsI32(s.position[1]), AsI32(s.position[2]), s.size[1], s.size[2], p)

\* some pixel of the sprite gets a slice that is not in the buffer
SliceOutsideAt(pos_x, pos_y, width, height) ==
  \E y \in 0..(height - 1) :
     /\ RowLastAt(pos_x, pos_y, width, y) + 4 > FrameLen
     /\ \E x \in 0..(width - 1) :
           ~SliceInFrame(DestStartAt(pos_x, pos_y, width, y * width + x))
SliceOutside(s) ==
  SliceOutsideAt(AsI32(s.position[1]), AsI32(s.position[2]), s.size[1], s.size[2])

\* lines 292-294: get_pixel panics when the frame reaches beyond the sheet
SamplesOutsideSheet(s) ==
  \/ get_sheet_offset(s)[1] + s.size[1] > s.sprite_sheet.sheet_dimensions[1]
  \/ get_sheet_offset(s)[2] + s.size[2] > s.sprite_sheet.sheet_dimensions[2]

SourcePixel(i, s, z) ==
  Texture(i, (z % s.size[1]) + get_sheet_offset(s)[1],
             (z \div s.size[1]) + get_sheet_offset(s)[2])

\* lines 297-303
F1_0 == <<8388608, -23>>
AsU8(a) == Saturate(FTrunc(a), 0, 255)
AlphaFraction(a) == FDivInt(FromInt(a), 255)
BlendChannelOneCast(d, c, a) ==
  AsU8(FAdd(FMulInt(FSub(F1_0, AlphaFraction(a)), d), FMulInt(AlphaFraction(a), c)))
BlendChannel(d, c, a) ==
  AsU8(FMulInt(FSub(F1_0, AlphaFraction(a)), d)) + AsU8(FMulInt(AlphaFraction(a), c))
BlendPixel(world_pixel, colors) ==
  <<BlendChannel(world_pixel[1], colors[1], colors[4]),
    BlendChannel(world_pixel[2], colors[2], colors[4]),
    BlendChannel(world_pixel[3], colors[3], colors[4]),
    255>>

\* lines 257-265
BackgroundPass(fr) == [p \in Probe |-> Background(p % WORLD_WIDTH, p \div WORLD_WIDTH)]

\* the blends of pixels zs[lo..hi] of sprite i onto one buffer pixel, in order
RECURSIVE BlendAll(_, _, _, _, _, _)
BlendAll(pixel, zs, lo, hi, i, s) ==
  IF lo > hi THEN pixel
  ELSE IF lo = hi THEN BlendPixel(pixel, SourcePixel(i, s, zs[lo]))
  ELSE LET mid == (lo + hi) \div 2
           half == BlendAll(pixel, zs, lo, mid, i, s)
       IN BlendAll(half, zs, mid + 1, hi, i, s)

\* lines 268-308, from sprite i on
RECURSIVE SpritePass(_, _, _)
SpritePass(fr, sps, i) ==
  IF i > Len(sps) THEN fr
  ELSE SpritePass([p \in Probe |->
                     LET zs == Hits(sps[i], p)
                     IN BlendAll(fr[p], zs, 1, Len(zs), i - 1, sps[i])],
                  sps, i + 1)

DrawPanics(sps) ==
  \E i \in 1..Len(sps) : SliceOutside(sps[i]) \/ SamplesOutsideSheet(sps[i])

BlankFrame == [p \in Probe |-> <<0, 0, 0, 0>>]

(***************************************************************************)
(* State                                                                   *)
(***************************************************************************)
VARIABLES
  right_held,   \* World.right_held
  left_held,    \* World.left_held
  sprites,      \* World.sprites
  clock,        \* the reading of get_current_time(), in ms
  frame,        \* the pixel buffer, at the pixels of Probe
  panicked,     \* the process has panicked
  events,       \* key events delivered so far
  phase,        \* handler passes since the last pass that could take a key event
  draws,        \* redraws so far
  advances,     \* calls of increment_frame on sprite 0's clip that took effect
  changed_at,   \* clock reading at the last of them, -1 before the first
  blend_in,     \* world_pixel and colors of the last blend of lines 297-303
  last          \* the last step: "init", "tick", "draw", "clock", "advance", "blend"

vars == <<right_held, left_held, sprites, clock, frame, panicked, events, phase,
          draws, advances, changed_at, blend_in, last>>

KeyInput == {"none", "pressed", "released"}
Cost(k) == IF k = "none" THEN 0 ELSE 1
ClockSteps == {100}

\* sprite 0 is within MaxOvershoot pixels of the world
Followed(sps) ==
  /\ FTrunc(sps[1].position[1]) >= -MaxOvershoot
  /\ FTrunc(sps[1].position[1]) + sps[1].size[1] <= WORLD_WIDTH + MaxOvershoot
  /\ FTrunc(sps[1].position[2]) >= -MaxOvershoot

\* the clip sprite 0 is showing
ActiveClip(sps) ==
  sps[1].sprite_sheet.animations[sps[1].sprite_sheet.current_animation + 1]

InitWorld(sps, fr) ==
  /\ right_held = FALSE
  /\ left_held = FALSE
  /\ sprites = sps
  /\ clock = StartTime
  /\ frame = fr
  /\ panicked = FALSE
  /\ events = 0
  /\ phase = 0
  /\ draws = 0
  /\ advances = 0
  /\ changed_at = -1
  /\ blend_in = <<>>
  /\ last = "init"

\* World::new on the sprite list of main
Init == InitWorld(<<PlayerSprite(<<350, 407>>), WindowSprite(<<98, 72>>)>>, BlankFrame)

\* main, lines 366-404: one pass of the input handler.  Key events arrive
\* only in every period-th pass and at most maxEvents of them in a run.
HandlerPass(maxEvents, period, up, right, left) ==
  /\ ~panicked
  /\ draws = 0
  /\ Followed(sprites)
  /\ events + Cost(up) + Cost(right) + Cost(left) <= maxEvents
  /\ Cost(up) + Cost(right) + Cost(left) > 0 => phase = 0
  /\ right = "pressed" => ~right_held
  /\ right = "released" => right_held
  /\ left = "pressed" => ~left_held
  /\ left = "released" => left_held
  /\ events' = events + Cost(up) + Cost(right) + Cost(left)
  /\ phase' = (phase + 1) % period
  /\ right_held' = IF right = "pressed" THEN TRUE
                   ELSE IF right = "released" THEN FALSE ELSE right_held
  /\ left_held' = IF left = "pressed" THEN TRUE
                  ELSE IF left = "released" THEN FALSE ELSE left_held
  /\ LET s1 == IF up = "pressed"
               THEN set_sprite_animation(set_velocity_y(sprites, FUpImpulse, 0), 0, 0)
               ELSE IF up = "released" THEN set_sprite_animation(sprites, 0, 0)
               ELSE sprites
     IN sprites' = update_physics(update_movement(right_held', left_held', s1))
  /\ last' = "tick"
  /\ UNCHANGED <<clock, frame, panicked, draws, advances, changed_at, blend_in>>

Tick(up, right, left) == HandlerPass(MaxEvents, InputPeriod, up, right, left)

\* what a call of update_sprite_animations does to the counters
Counted(sps) ==
  /\ advances' = IF ActiveClip(sps) # ActiveClip(sprites) THEN advances + 1 ELSE advances
  /\ changed_at' = IF ActiveClip(sps) # ActiveClip(sprites) THEN clock ELSE changed_at

\* main, lines 356-363: RedrawRequested
Draw ==
  /\ ~panicked
  /\ draws < MaxDraws
  /\ LET sps == update_sprite_animations(sprites, clock)
     IN /\ sprites' = sps
        /\ Counted(sps)
        /\ panicked' = DrawPanics(sps)
        /\ frame' = IF panicked' THEN frame
                    ELSE SpritePass(BackgroundPass(frame), sps, 1)
  /\ draws' = draws + 1
  /\ last' = "draw"
  /\ UNCHANGED <<right_held, left_held, clock, events, phase, blend_in>>

\* time passes
ClockAdvance(limit, d) ==
  /\ ~panicked
  /\ clock + d <= StartTime + limit
  /\ clock' = clock + d
  /\ last' = "clock"
  /\ UNCHANGED <<right_held, left_held, sprites, frame, panicked, events, phase,
                 draws, advances, changed_at, blend_in>>

Next == \E up \in KeyInput, right \in KeyInput, left \in KeyInput : Tick(up, right, left)

Spec == Init /\ [][Next]_vars

(***************************************************************************)
(* SpecDraw: the runs that are redrawn.  Handler passes are followed up to *)
(* the first redraw and time from the first redraw on.                     *)
(***************************************************************************)
DrawTick(up, right, left) == HandlerPass(DrawMaxEvents, DrawInputPeriod, up, right, left)
DrawClock == draws > 0 /\ ClockAdvance(DrawMaxElapsed, DrawMaxElapsed)

NextDraw ==
  \/ \E up \in KeyInput, right \in KeyInput, left \in KeyInput : DrawTick(up, right, left)
  \/ Draw
  \/ DrawClock

SpecDraw == Init /\ [][NextDraw]_vars

(***************************************************************************)
(* SpecAnim: one sprite showing one clip, whose parameters are drawn from  *)
(* small sets; the clip is advanced while time passes.                     *)
(***************************************************************************)
AnimStarts == {<<0, 0>>, <<150, 0>>}
AnimDurations == {0, 200}
AnimSheetWidths == {175, 200}
AnimFrameSize == <<50, 37>>

InitAnim ==
  \E start \in AnimStarts, n \in 1..MaxFrames, d \in AnimDurations, w \in AnimSheetWidths :
     InitWorld(<<SpriteNew(SpriteSheetNew(<<w, 4 * AnimFrameSize[2]>>,
                                          <<AnimationNew(start, n, d)>>, AnimFrameSize))>>,
               BlankFrame)

\* one call of World::update_sprite_animations
Advance ==
  /\ ~panicked
  /\ sprites' = update_sprite_animations(sprites, clock)
  /\ Counted(sprites')
  /\ last' = "advance"
  /\ UNCHANGED <<right_held, left_held, clock, frame, panicked, events, phase, draws,
                 blend_in>>

AnimClock == \E d \in ClockSteps : ClockAdvance(AnimMaxElapsed, d)

NextAnim == Advance \/ AnimClock

SpecAnim == InitAnim /\ [][NextAnim]_vars

(***************************************************************************)
(* SpecBlend: the blend of lines 297-303 applied to buffer pixel 0, on     *)
(* background and sprite pixels drawn from small sets.                     *)
(***************************************************************************)
BlendBackgrounds ==
  {Background(10, 20), Background(51, 0), Background(255, 143), Background(0, 0)}
BlendColors ==
  {<<200, 100, 50, 128>>, <<255, 255, 255, 255>>, <<0, 0, 0, 0>>, <<77, 51, 200, 65>>,
   <<255, 255, 255, 254>>}

InitBlend ==
  \E d \in BlendBackgrounds :
     InitWorld(<<PlayerSprite(<<350, 407>>), WindowSprite(<<98, 72>>)>>, [p \in Probe |-> d])

Blend(colors) ==
  /\ draws < MaxBlends
  /\ frame' = [frame EXCEPT ![0] = BlendPixel(frame[0], colors)]
  /\ blend_in' = <<frame[0], colors>>
  /\ draws' = draws + 1
  /\ last' = "blend"
  /\ UNCHANGED <<right_held, left_held, sprites, clock, panicked, events, phase,
                 advances, changed_at>>

NextBlend == \E colors \in BlendColors : Blend(colors)

SpecBlend == InitBlend /\ [][NextBlend]_vars

(***************************************************************************)
(* Properties                                                              *)
(***************************************************************************)
\* bottom edge of a sprite: trunc(position.y) + size.height
Bottom(s) == FTrunc(s.position[2]) + s.size[2]
OnFloor(s) ==
  /\ s.position[2] = FromInt(WORLD_HEIGHT - s.size[2])
  /\ s.velocity[2] = FZero
\* the sprites after one handler pass that receives no Up event
AfterTick(rh, lh) == update_physics(update_movement(rh, lh, sprites))

\* C2: the floor-collision test of every sprite is true if and only if
\* trunc(position.y) + size.height >= WORLD_HEIGHT.
C2_FloorTestUsesHeight ==
  \A i \in 1..Len(sprites) : collision_y(sprites[i]) <=> Bottom(sprites[i]) >= WORLD_HEIGHT

\* C3: whenever sprite 0's bottom edge is at or below the floor after a
\* tick, position.y is WORLD_HEIGHT - size.height and velocity.y is 0, and
\* every tick without an Up impulse, whatever keys are held, keeps both.
C3_FloorRest ==
  Bottom(sprites[1]) >= WORLD_HEIGHT =>
     /\ OnFloor(sprites[1])
     /\ \A rh \in BOOLEAN, lh \in BOOLEAN : OnFloor(AfterTick(rh, lh)[1])

C3_Resting ==
  /\ last = "tick"
  /\ Bottom(sprites[1]) >= WORLD_HEIGHT
  /\ OnFloor(sprites[1])
  /\ right_held

\* C4: sprite 0's velocity.y never exceeds 5.0.
C4_TerminalVelocity == ~FLt(F5_0, sprites[1].velocity[2])

\* C10: after update_movement, whatever keys are held, sprite 0's
\* velocity.x is exactly 0 or of magnitude at least 0.3; from velocity.x =
\* 0.25 with no key held, one tick leaves velocity.x exactly 0.
F0_25 == <<8388608, -25>>
C10_DeadZone ==
  /\ \A rh \in BOOLEAN, lh \in BOOLEAN :
        LET v == update_movement(rh, lh, sprites)[1].velocity[1]
        IN v = FZero \/ ~FLt(FAbs(v), F0_3)
  /\ sprites[1].velocity[1] = F0_25 => AfterTick(FALSE, FALSE)[1].velocity[1] = FZero

C10_QuarterSnapped ==
  /\ sprites[1].velocity[1] = F0_25
  /\ ~right_held /\ ~left_held
  /\ AfterTick(right_held, left_held)[1].velocity[1] = FZero

\* the sheet on which sprite 0's clip lies
SheetWidth == sprites[1].sprite_sheet.sheet_dimensions[1]
FrameSize == sprites[1].sprite_sheet.frame_size

\* C5: for a clip of n >= 1 frames and duration d > 0, after exactly n
\* advances that took effect the clip shows frame 0 at its starting
\* position again; the 4-frame, 200 ms clip at (0,0) on a 200 px wide sheet
\* with 50 px frames shows frame 1 at (50,0) after one of them.
C5_AnimationCycle ==
  LET a == ActiveClip(sprites)
  IN /\ a.frame_duration > 0 /\ a.num_frames >= 1 /\ advances = a.num_frames =>
          a.current_frame = 0 /\ a.current_position = a.starting_frame_position
     /\ /\ a.num_frames = 4 /\ a.frame_duration = 200
        /\ a.starting_frame_position = <<0, 0>>
        /\ SheetWidth = 200 /\ FrameSize[1] = 50
        /\ advances = 1
        => a.current_frame = 1 /\ a.current_position = <<50, 0>>

C5_CycleDone ==
  LET a == ActiveClip(sprites)
  IN /\ a.num_frames = 4 /\ a.frame_duration = 200 /\ advances = 4
     /\ a.starting_frame_position = <<150, 0>>
     /\ a.current_frame = 0 /\ a.current_position = <<150, 0>>
     /\ changed_at = StartTime + 3 * a.frame_duration

\* C6: a call of increment_frame on a clip whose frame_duration is 0, or
\* less than frame_duration ms after previous_frame_time, leaves the clip as
\* it is; and two changes of a clip are at least frame_duration ms apart.
C6_RateLimiter ==
  [][last' = "advance" =>
       LET a == ActiveClip(sprites)
       IN /\ a.frame_duration = 0 \/ clock - a.previous_frame_time < a.frame_duration =>
               ActiveClip(sprites)' = a
          /\ advances' = advances + 1 /\ advances >= 1 =>
               clock - changed_at >= a.frame_duration]_vars

C6_CalledTooEarly ==
  LET a == ActiveClip(sprites)
  IN /\ last = "advance"
     /\ a.frame_duration > 0
     /\ advances >= 1
     /\ changed_at = a.previous_frame_time
     /\ clock - a.previous_frame_time > 0
     /\ clock - a.previous_frame_time < a.frame_duration

\* C7: an advance that takes effect on a frame that is not the last moves
\* current_position from (x, y) to (x + frame_width, y) when x + 2 *
\* frame_width < sheet_width and to (0, y + frame_height) otherwise; with
\* frames of 50x37 on a 200 px wide sheet, (150,0) is followed by (0,37).
C7_RowWrap ==
  [][LET a == ActiveClip(sprites)
         x == a.current_position[1]
         y == a.current_position[2]
     IN advances' = advances + 1 /\ a.current_frame < a.num_frames - 1 =>
          /\ ActiveClip(sprites)'.current_position =
               IF x + 2 * FrameSize[1] < SheetWidth
               THEN <<x + FrameSize[1], y>>
               ELSE <<0, y + FrameSize[2]>>
          /\ FrameSize = <<50, 37>> /\ SheetWidth = 200 /\ a.current_position = <<150, 0>> =>
               ActiveClip(sprites)'.current_position = <<0, 37>>]_vars

C7_Wrapped ==
  LET a == ActiveClip(sprites)
  IN /\ FrameSize = <<50, 37>> /\ SheetWidth = 200
     /\ a.starting_frame_position = <<150, 0>>
     /\ advances = 1 /\ a.current_frame = 1
     /\ a.current_position = <<0, 37>>

\* C8, as stated: blending the sprite pixel (200,100,50,128) onto the
\* background pixel (10,20,30) writes (104, 60, 39, 255).
C8_BlendExampleAsStated ==
  last = "blend" /\ blend_in = <<Background(10, 20), <<200, 100, 50, 128>>>> =>
     frame[0] = <<104, 60, 39, 255>>

\* C8, amended: blending the sprite pixel (200,100,50,128) onto the
\* background pixel (10,20,30) writes (104, 59, 39, 255).
C8_BlendExample ==
  last = "blend" /\ blend_in = <<Background(10, 20), <<200, 100, 50, 128>>>> =>
     frame[0] = <<104, 59, 39, 255>>

C8_ExampleBlended ==
  /\ last = "blend"
  /\ draws = 1
  /\ blend_in = <<<<10, 20, 30, 255>>, <<200, 100, 50, 128>>>>
  /\ frame[0] = <<104, 59, 39, 255>>

\* a row of sprite s some of whose pixels may have an index outside
\* 0..FrameLen - 4; the index grows by 4 from a pixel of a row to the next,
\* so all the pixels of the other rows have their index inside
EdgeRow(s, y) == RowFirst(s, y) < 0 \/ RowLast(s, y) + 4 > FrameLen

\* C1: in a draw, the destination of every sprite pixel is the computed
\* index when index..index+4 lies in the buffer and bytes 0..4 otherwise,
\* no slice reaches outside the buffer and the draw does not panic.
C1_DestinationInBuffer ==
  last = "draw" =>
     /\ ~panicked
     /\ \A i \in 1..Len(sprites) : \A y \in 0..(sprites[i].size[2] - 1) :
           EdgeRow(sprites[i], y) =>
              \A x \in 0..(sprites[i].size[1] - 1) :
                 LET z == y * sprites[i].size[1] + x
                     index == PixelIndex(sprites[i], z)
                 IN /\ DestStart(sprites[i], z) =
                         IF index >= 0 /\ index + 4 <= FrameLen THEN index ELSE 0
                    /\ SliceInFrame(DestStart(sprites[i], z))

\* C9: a draw that follows a draw, with no handler pass and no clock step
\* between them, leaves the buffer as the first draw left it.
C9_DrawIdempotent ==
  [][last = "draw" /\ last' = "draw" /\ draws' = draws + 1 =>
        frame' = frame /\ panicked' = panicked]_vars

\* second of two draws at one clock reading, the first of which advanced
\* the player's clip and sent pixels of the player to bytes 0..4
C9_DrawnTwice ==
  /\ last = "draw"
  /\ draws = 2
  /\ ~panicked
  /\ clock = StartTime
  /\ advances = 1
  /\ FTrunc(sprites[1].position[2]) < 0
  /\ Len(Hits(sprites[1], 0)) > 0

\* the byte the blend rule of the specification gives for one channel
ExactChannel(d, c, a) == (d * (255 - a)) \div 255 + (c * a) \div 255

\* C11: every RGB byte written by a blend equals floor(d*(255-a)/255) +
\* floor(s*a/255) and is at most 255; alpha 0 leaves the destination's RGB,
\* alpha 255 copies the source's RGB; the alpha byte written is 255.
C11_BlendRule ==
  last = "blend" =>
     LET d == blend_in[1]
         c == blend_in[2]
     IN /\ \A k \in 1..3 : /\ frame[0][k] = ExactChannel(d[k], c[k], c[4])
                           /\ frame[0][k] <= 255
        /\ c[4] = 0 => \A k \in 1..3 : frame[0][k] = d[k]
        /\ c[4] = 255 => \A k \in 1..3 : frame[0][k] = c[k]
        /\ frame[0][4] = 255

\* position.y of sprite 0 after the move of lines 221-222
MovedY(sps) == FAdd(sps[1].position[2], FDivInt(sps[1].velocity[2], 5))

\* C12: in a tick, with or without an Up impulse before it, in which sprite
\* 0's bottom edge after the move is above the floor, position.y changes by
\* exactly velocity.y / 5: the sprite is not put on the floor.
C12_ClampOnlyOnContact ==
  \A up \in BOOLEAN :
     LET pre == IF up THEN set_velocity_y(sprites, FUpImpulse, 0) ELSE sprites
         post == update_physics(update_movement(right_held, left_held, pre))
     IN FTrunc(MovedY(pre)) + pre[1].size[2] < WORLD_HEIGHT =>
           post[1].position[2] = MovedY(pre)

\* C13: in a tick, whatever keys are held, a velocity.x that is positive
\* after update_movement is not negative after update_physics, and one that
\* is negative is not positive.
C13_FrictionKeepsSign ==
  \A rh \in BOOLEAN, lh \in BOOLEAN :
     LET moved == update_movement(rh, lh, sprites)
         v == moved[1].velocity[1]
         w == update_physics(moved)[1].velocity[1]
     IN /\ FLt(FZero, v) => ~FLt(w, FZero)
        /\ FLt(v, FZero) => ~FLt(FZero, w)

\* friction has brought a positive velocity.x below 0.3 and not below 0
C13_Slowed ==
  /\ last = "tick"
  /\ ~right_held /\ ~left_held
  /\ FLt(FZero, sprites[1].velocity[1])
  /\ FLt(sprites[1].velocity[1], F0_3)

NoKeyHeld == ~right_held /\ ~left_held

\* sprite 0 does not move horizontally: velocity.x is 0, and a tick with
\* no key held leaves velocity.x at 0 and position.x as it is
AtRestX ==
  /\ sprites[1].velocity[1] = FZero
  /\ AfterTick(FALSE, FALSE)[1].velocity[1] = FZero
  /\ AfterTick(FALSE, FALSE)[1].position[1] = sprites[1].position[1]

\* a tick with no key held brings a velocity.x other than 0 nearer to 0
SlowsDown ==
  sprites[1].velocity[1] # FZero =>
     FLt(FAbs(AfterTick(FALSE, FALSE)[1].velocity[1]), FAbs(sprites[1].velocity[1]))

\* C14: while no key is held, every tick brings a velocity.x other than 0
\* nearer to 0, and a velocity.x of 0 stays 0 with position.x unchanged.
\* velocity.x takes finitely many values, so it is 0 after finitely many
\* ticks with no key held, and stays 0.
C14_HorizontalRest ==
  NoKeyHeld =>
     /\ SlowsDown
     /\ sprites[1].velocity[1] = FZero => AtRestX

\* sprite 0 has come to rest away from the walls after moving right
C14_CameToRest ==
  /\ last = "tick"
  /\ NoKeyHeld
  /\ events = MaxEvents
  /\ AtRestX
  /\ FTrunc(sprites[1].position[1]) > 0
  /\ FTrunc(sprites[1].position[1]) + sprites[1].size[1] < WORLD_WIDTH

\* the sprites after the Up branch of the handler (lines 372-375)
AfterUpPressed == set_sprite_animation(set_velocity_y(sprites, FUpImpulse, 0), 0, 0)

\* C15: a handler pass leaves every sprite of index >= 1 as it is, and the
\* number of sprites; Right and Left key events act on the sprites only
\* through right_held and left_held: the sprites after the pass are those
\* update_movement and update_physics give for the new flags.
C15_PhysicsFrame ==
  [][last' = "tick" =>
       /\ Len(sprites') = Len(sprites)
       /\ \A i \in 2..Len(sprites) : sprites'[i] = sprites[i]
       /\ sprites' \in {update_physics(update_movement(right_held', left_held', s)) :
                          s \in {sprites, AfterUpPressed}}]_vars

\* sprite 0 has moved under a held key; the building is as main made it
C15_BuildingUntouched ==
  /\ last = "tick"
  /\ right_held
  /\ events = MaxEvents
  /\ FTrunc(sprites[1].position[1]) > 0
  /\ sprites[2] = WindowSprite(<<98, 72>>)

\* the k-th element of the sequence of frame positions that starts at start
\* and goes through the sheet row by row
RECURSIVE FramePosition(_, _, _, _)
FramePosition(start, k, frame_size, sheet_width) ==
  IF k = 0 THEN start
  ELSE LET prev == FramePosition(start, k - 1, frame_size, sheet_width)
       IN IF prev[1] + 2 * frame_size[1] < sheet_width
          THEN <<prev[1] + frame_size[1], prev[2]>>
          ELSE <<0, prev[2] + frame_size[2]>>

\* C16: the clip's current_frame is in 0..num_frames-1 and its
\* current_position is the current_frame-th position of the row-major
\* sequence that starts at starting_frame_position.
C16_AnimationInvariant ==
  LET a == ActiveClip(sprites)
  IN /\ a.current_frame >= 0
     /\ a.current_frame < a.num_frames
     /\ a.current_position =
           FramePosition(a.starting_frame_position, a.current_frame, FrameSize, SheetWidth)

C16_ThirdFrame ==
  LET a == ActiveClip(sprites)
  IN /\ last = "advance"
     /\ advances = 3
     /\ SheetWidth = 200
     /\ a.starting_frame_position = <<150, 0>>
     /\ a.current_frame = 3
     /\ a.current_position = <<100, 37>>

\* C17: when a frame is no wider than the sheet and the clip starts with
\* its frame inside the sheet's width, every state of the clip has
\* current_position.x + frame_width <= sheet_width, so that draw samples no
\* column at or beyond sheet_width.
C17_SheetEdgeMargin ==
  LET a == ActiveClip(sprites)
  IN FrameSize[1] <= SheetWidth /\ a.starting_frame_position[1] + FrameSize[1] <= SheetWidth =>
        /\ a.current_position[1] + FrameSize[1] <= SheetWidth
        /\ get_sheet_offset(sprites[1])[1] + sprites[1].size[1]
              <= sprites[1].sprite_sheet.sheet_dimensions[1]

\* on the 175 px wide sheet the frame after (100,0) starts the next row
C17_WrappedBeforeEdge ==
  LET a == ActiveClip(sprites)
  IN /\ last = "advance"
     /\ SheetWidth = 175
     /\ a.starting_frame_position = <<0, 0>>
     /\ a.current_frame = 3
     /\ a.current_position = <<0, 37>>

\* C18: sprite 0 is inside the world horizontally, but for the one step
\* (of at most 2 pixels) that took it into a wall, and once it is beyond a
\* wall a tick with the key toward that wall held moves it no further.
C18_HorizontalContainment ==
  LET x == FTrunc(sprites[1].position[1])
      after == AfterTick(right_held, left_held)[1].position[1]
  IN /\ -2 <= x
     /\ x + sprites[1].size[1] <= WORLD_WIDTH + 2
     /\ right_held /\ x + sprites[1].size[1] > WORLD_WIDTH =>
           ~FLt(sprites[1].position[1], after)
     /\ left_held /\ x < 0 => ~FLt(after, sprites[1].position[1])

\* C19: a tick without an Up impulse from a state in which sprite 0 does
\* not rest on the floor puts it on the floor, or raises velocity.y, or
\* keeps velocity.y and raises position.y.  Both are bounded above, so the
\* sprite rests on the floor after finitely many such ticks.
C19_Landing ==
  ~OnFloor(sprites[1]) =>
     LET post == AfterTick(right_held, left_held)[1]
     IN \/ OnFloor(post)
        \/ FLt(sprites[1].velocity[2], post.velocity[2])
        \/ /\ post.velocity[2] = sprites[1].velocity[2]
           /\ FLt(sprites[1].position[2], post.position[2])

\* the last tick of a fall, in a run with a key event
C19_AboutToLand ==
  /\ last = "tick"
  /\ events > 0
  /\ ~OnFloor(sprites[1])
  /\ FLt(FZero, sprites[1].velocity[2])
  /\ OnFloor(AfterTick(right_held, left_held)[1])

\* C20: |velocity.x| of sprite 0 is less than 5.05 in every state, and
\* after the update_movement of a further tick with any keys held.
F5_05 == <<10590618, -21>>
C20_SpeedCap ==
  /\ FLt(FAbs(sprites[1].velocity[1]), F5_05)
  /\ \A rh \in BOOLEAN, lh \in BOOLEAN :
        FLt(FAbs(update_movement(rh, lh, sprites)[1].velocity[1]), F5_05)

\* velocity.x is at the threshold or above it: update_movement raises it no more
C20_AtTopSpeed ==
  /\ last = "tick"
  /\ right_held
  /\ ~BelowTopSpeed(sprites[1].velocity[1])
  /\ update_movement(right_held, left_held, sprites)[1].velocity[1] = sprites[1].velocity[1]

====
